---------------------------- MODULE Spec2Model ----------------------------
(***************************************************************************)
(* Model of pynamodb/attributes.py: the scalar codecs, the set codecs, the *)
(* type dispatcher (get_pynamo_type / get_python_type) and the recursive   *)
(* Map / List codecs.                                                      *)
(*                                                                         *)
(* Python objects are records [k |-> <type name>, v |-> <payload>].  Text  *)
(* is a TLA+ string; a dict is a function from key objects to objects; a   *)
(* list is a sequence.  A raised exception is the object of kind "raise".  *)
(* A call whose result depends on the iteration order of a dict is         *)
(* modelled by the set of its possible outcomes.                           *)
(***************************************************************************)
EXTENDS Integers, Sequences, FiniteSets, TLC

VARIABLES codec, value, serialized, deserialized, pc

vars == <<codec, value, serialized, deserialized, pc>>

----------------------------------------------------------------------------
(* Bounds of the explored inputs *)

MaxDepth == 2      \* nesting levels below the top-level map / list
MaxLen == 2        \* longest top-level list
NestingLimit == 12 \* the nesting depth limit the deeply nested input exceeds

DeepNesting == NestingLimit + 1

----------------------------------------------------------------------------
(* Python objects *)

PyNone == [k |-> "NoneType", v |-> "None"]
PyStr(s) == [k |-> "str", v |-> s]
PyUnicode(s) == [k |-> "unicode", v |-> s]
PyInt(n) == [k |-> "int", v |-> n]
PyBool(b) == [k |-> "bool", v |-> b]
PyFloat(tenths) == [k |-> "float", v |-> tenths]
PyDict(f) == [k |-> "dict", v |-> f]
PyList(q) == [k |-> "list", v |-> q]
PySet(q) == [k |-> "set", v |-> q]
PyObject == [k |-> "object", v |-> "Custom"]
Unset == [k |-> "unset", v |-> "unset"]

Raise(msg) == [k |-> "raise", v |-> msg]
IsRaise(o) == o.k = "raise"

IsBaseString(o) == o.k \in {"str", "unicode"}
IsNumeric(o) == o.k \in {"int", "bool", "float"}

EmptyDict == PyDict(<<>>)

Elements(o) ==
  IF o.k = "dict" THEN {o.v[x] : x \in DOMAIN o.v}
  ELSE IF o.k = "list" THEN {o.v[i] : i \in 1..Len(o.v)}
  ELSE {}

\* the objects nested in o, o included
RECURSIVE Objects(_)
Objects(o) == {o} \cup UNION {Objects(e) : e \in Elements(o)}

RECURSIVE Depth(_)
Depth(o) ==
  IF o.k \notin {"dict", "list"} THEN 0
  ELSE IF Elements(o) = {} THEN 1
  ELSE LET ds == {Depth(e) : e \in Elements(o)}
       IN 1 + (CHOOSE m \in ds : \A n \in ds : n <= m)

----------------------------------------------------------------------------
(* Text helpers *)

CharAt(s, i) == SubSeq(s, i, i)

Digits == "0123456789"
UpperCase == "ABCDEFGHIJKLMNOPQRSTUVWXYZ"
LowerCase == "abcdefghijklmnopqrstuvwxyz"

IndexIn(s, c) == CHOOSE i \in 1..Len(s) : CharAt(s, i) = c
Contains(s, c) == \E i \in 1..Len(s) : CharAt(s, i) = c

\* ord() of an ASCII letter or digit
Ord(c) ==
  IF Contains(Digits, c) THEN 47 + IndexIn(Digits, c)
  ELSE IF Contains(UpperCase, c) THEN 64 + IndexIn(UpperCase, c)
  ELSE 96 + IndexIn(LowerCase, c)

Digit(d) == CharAt(Digits, d + 1)
DigitChars == {Digit(d) : d \in 0..9}
DigitVal(c) == CHOOSE d \in 0..9 : Digit(d) = c

RECURSIVE NatToStr(_)
NatToStr(n) == IF n < 10 THEN Digit(n) ELSE NatToStr(n \div 10) \o Digit(n % 10)

RECURSIVE StrToNat(_)
StrToNat(s) ==
  IF Len(s) = 1 THEN DigitVal(s)
  ELSE 10 * StrToNat(SubSeq(s, 1, Len(s) - 1)) + DigitVal(CharAt(s, Len(s)))

AllDigits(s) == Len(s) > 0 /\ \A i \in 1..Len(s) : CharAt(s, i) \in DigitChars

StrLess(a, b) ==
  \E i \in 1..(Len(a) + 1) :
    /\ i <= Len(b)
    /\ \A j \in 1..(i - 1) : CharAt(a, j) = CharAt(b, j)
    /\ (i = Len(a) + 1 \/ Ord(CharAt(a, i)) < Ord(CharAt(b, i)))

----------------------------------------------------------------------------
(* Library conversions used by the codecs *)

DotPos(s) ==
  IF Contains(s, ".") THEN CHOOSE i \in 1..Len(s) :
        CharAt(s, i) = "." /\ \A j \in 1..(i - 1) : CharAt(s, j) # "."
  ELSE 0

\* json.dumps of a scalar: booleans before integers, floats by repr (one
\* fractional digit in this model: v is the number of tenths), text quoted
json_dumps(val) ==
  CASE val.k = "bool" -> IF val.v THEN "true" ELSE "false"
    [] val.k = "int" -> IF val.v < 0 THEN "-" \o NatToStr(0 - val.v) ELSE NatToStr(val.v)
    [] val.k = "float" ->
         LET a == IF val.v < 0 THEN 0 - val.v ELSE val.v
         IN (IF val.v < 0 THEN "-" ELSE "") \o NatToStr(a \div 10) \o "." \o Digit(a % 10)
    [] val.k \in {"str", "unicode"} -> "\"" \o val.v \o "\""
    [] val.k = "NoneType" -> "null"

\* json.loads of a scalar document: literals, quoted text, JSON numbers
\* (no leading zeros; fractions of one digit in this model)
json_loads(s) ==
  LET neg == Len(s) > 0 /\ CharAt(s, 1) = "-"
      body == IF neg THEN SubSeq(s, 2, Len(s)) ELSE s
      dot == DotPos(body)
      ip == IF dot = 0 THEN body ELSE SubSeq(body, 1, dot - 1)
      fp == IF dot = 0 THEN "" ELSE SubSeq(body, dot + 1, Len(body))
      ipOk == AllDigits(ip) /\ (Len(ip) = 1 \/ CharAt(ip, 1) # "0")
      sgn == IF neg THEN 0 - 1 ELSE 1
  IN CASE s = "true" -> PyBool(TRUE)
       [] s = "false" -> PyBool(FALSE)
       [] s = "null" -> PyNone
       [] s \notin {"true", "false", "null"} /\ Len(s) >= 2 /\ CharAt(s, 1) = "\""
            /\ CharAt(s, Len(s)) = "\"" -> PyUnicode(SubSeq(s, 2, Len(s) - 1))
       [] OTHER ->
            IF ipOk /\ dot = 0 THEN PyInt(sgn * StrToNat(ip))
            ELSE IF ipOk /\ dot > 0 /\ AllDigits(fp) /\ Len(fp) = 1
              THEN PyFloat(sgn * (10 * StrToNat(ip) + DigitVal(fp)))
            ELSE Raise("ValueError: No JSON object could be decoded")

B64Alphabet == UpperCase \o LowerCase \o Digits \o "+/"
B64(c) == CharAt(B64Alphabet, c + 1)

\* base64.b64encode of an ASCII byte string
RECURSIVE b64encode(_)
b64encode(s) ==
  IF Len(s) = 0 THEN ""
  ELSE LET n == Len(s)
           b1 == Ord(CharAt(s, 1))
           b2 == IF n >= 2 THEN Ord(CharAt(s, 2)) ELSE 0
           b3 == IF n >= 3 THEN Ord(CharAt(s, 3)) ELSE 0
       IN B64(b1 \div 4)
          \o B64((b1 % 4) * 16 + (b2 \div 16))
          \o (IF n >= 2 THEN B64((b2 % 16) * 4 + (b3 \div 64)) ELSE "=")
          \o (IF n >= 3 THEN B64(b3 % 64) ELSE "=")
          \o (IF n > 3 THEN b64encode(SubSeq(s, 4, n)) ELSE "")

\* six.u on an ASCII byte string without escape sequences: the unicode text
\* of the same characters
six_u(val) == PyUnicode(val.v)

\* Python 2 ordering of two scalars of one kind
NumVal(o) ==
  CASE o.k = "int" -> 10 * o.v
    [] o.k = "bool" -> IF o.v THEN 10 ELSE 0
    [] o.k = "float" -> o.v

PyLess(a, b) ==
  IF IsNumeric(a) THEN NumVal(a) < NumVal(b) ELSE StrLess(a.v, b.v)

Insert(x, s) ==
  LET pos == Cardinality({i \in 1..Len(s) : ~PyLess(x, s[i])})
  IN SubSeq(s, 1, pos) \o <<x>> \o SubSeq(s, pos + 1, Len(s))

\* mutant: the members are encoded in iteration order
sorted_Unsorted(q) == q

RECURSIVE sorted(_)
sorted(q) ==
  IF Len(q) = 0 THEN <<>>
  ELSE Insert(q[Len(q)], sorted(SubSeq(q, 1, Len(q) - 1)))

\* truth value of an object (`if value`)
Truthy(o) ==
  CASE o.k = "NoneType" -> FALSE
    [] o.k \in {"str", "unicode", "set", "list"} -> Len(o.v) > 0
    [] o.k = "dict" -> DOMAIN o.v # {}
    [] o.k \in {"int", "float"} -> o.v # 0
    [] o.k = "bool" -> o.v
    [] OTHER -> TRUE

----------------------------------------------------------------------------
(* Scalar and set codecs *)

\* BaseAttribute.serialize / deserialize: the value unchanged
BaseAttribute_serialize(val) == val
BaseAttribute_deserialize(val) == val

\* iter(value) succeeds for sets, lists and text; any other scalar is wrapped
\* into a one-element list
SetItems(val) ==
  IF val.k \in {"set", "list"} THEN val.v
  ELSE IF IsBaseString(val)
    THEN [i \in 1..Len(val.v) |-> [k |-> val.k, v |-> CharAt(val.v, i)]]
  ELSE <<val>>

SetMixin_serialize(val) ==
  IF val.k # "NoneType" /\ Len(SetItems(val)) > 0
  THEN LET s == sorted(SetItems(val))
       IN PyList([i \in 1..Len(s) |-> PyStr(json_dumps(s[i]))])
  ELSE PyNone

BinarySetAttribute_serialize(val) ==
  IF Truthy(val) /\ Len(val.v) > 0
  THEN LET s == sorted(val.v)
       IN PyList([i \in 1..Len(s) |-> PyUnicode(b64encode(s[i].v))])
  ELSE PyNone

\* mutant: empty text is passed through
BaseUnicodeAttribute_serialize_KeepEmpty(val) ==
  IF val.k = "NoneType" THEN PyNone
  ELSE IF val.k = "unicode" THEN val
  ELSE six_u(val)

BaseUnicodeAttribute_serialize(val) ==
  IF val.k = "NoneType" THEN PyNone
  ELSE IF val.k \in {"int", "bool", "float", "object"}
    THEN Raise("TypeError: object has no len()")
  ELSE IF ~Truthy(val) THEN PyNone
  ELSE IF val.k = "unicode" THEN val
  ELSE IF val.k = "str" THEN six_u(val)
  ELSE Raise("AttributeError: object has no attribute 'replace'")

BaseNumberAttribute_serialize(val) == PyStr(json_dumps(val))

\* mutant: the stored text is returned without parsing
BaseNumberAttribute_deserialize_Raw(val) == val

BaseNumberAttribute_deserialize(val) ==
  IF IsBaseString(val) THEN json_loads(val.v)
  ELSE Raise("TypeError: expected string or buffer")

----------------------------------------------------------------------------
(* pynamodb.constants: attribute type names and the type tag table *)

STRING_T == "String"
NUMBER == "Number"
BOOLEAN_T == "Boolean"
BINARY == "Binary"
STRING_SET == "StringSet"
NUMBER_SET == "NumberSet"
BINARY_SET == "BinarySet"
MAP == "Map"
LIST == "List"

ShortTags == {"S", "N", "B", "BOOL", "SS", "NS", "BS", "M", "L"}

ATTR_TYPE_MAP ==
  [t \in {STRING_T, NUMBER, BOOLEAN_T, BINARY, STRING_SET, NUMBER_SET, BINARY_SET,
          MAP, LIST} \cup ShortTags |->
    CASE t = STRING_T -> "S"          [] t = "S" -> STRING_T
      [] t = NUMBER -> "N"          [] t = "N" -> NUMBER
      [] t = BOOLEAN_T -> "BOOL"      [] t = "BOOL" -> BOOLEAN_T
      [] t = BINARY -> "B"          [] t = "B" -> BINARY
      [] t = STRING_SET -> "SS"     [] t = "SS" -> STRING_SET
      [] t = NUMBER_SET -> "NS"     [] t = "NS" -> NUMBER_SET
      [] t = BINARY_SET -> "BS"     [] t = "BS" -> BINARY_SET
      [] t = MAP -> "M"             [] t = "M" -> MAP
      [] t = LIST -> "L"            [] t = "L" -> LIST]

----------------------------------------------------------------------------
(* Type dispatcher and the recursive Map / List codecs *)

Codec(name) == [k |-> "codec", v |-> name]
STRING_TYPE == Codec("BaseUnicodeAttribute")
NUMBER_TYPE == Codec("BaseNumberAttribute")
BOOLEAN_TYPE == Codec("BaseBooleanAttribute")
MAP_TYPE == Codec("BaseMapAttribute")
LIST_TYPE == Codec("BaseListAttribute")

attr_type(c) ==
  CASE c = STRING_TYPE -> STRING_T
    [] c = NUMBER_TYPE -> NUMBER
    [] c = BOOLEAN_TYPE -> BOOLEAN_T
    [] c = MAP_TYPE -> MAP
    [] c = LIST_TYPE -> LIST

\* mutant: booleans are dispatched to the Boolean codec before the numeric test
get_pynamo_type_BoolFirst(val) ==
  IF IsBaseString(val) THEN STRING_TYPE
  ELSE IF val.k = "bool" THEN BOOLEAN_TYPE
  ELSE IF IsNumeric(val) THEN NUMBER_TYPE
  ELSE IF val.k = "dict" THEN MAP_TYPE
  ELSE IF val.k = "list" THEN LIST_TYPE
  ELSE Raise("TypeError: Trying to use a python type that is not supported.")

\* mutant: values nested deeper than the limit are rejected
get_pynamo_type_Guarded(val) ==
  IF Depth(val) >= NestingLimit THEN Raise("DepthExceededError")
  ELSE IF IsBaseString(val) THEN STRING_TYPE
  ELSE IF IsNumeric(val) THEN NUMBER_TYPE
  ELSE IF val.k = "dict" THEN MAP_TYPE
  ELSE IF val.k = "list" THEN LIST_TYPE
  ELSE Raise("TypeError: Trying to use a python type that is not supported.")

get_pynamo_type(val) ==
  IF IsBaseString(val) THEN STRING_TYPE
  ELSE IF IsNumeric(val) THEN NUMBER_TYPE
  ELSE IF val.k = "dict" THEN MAP_TYPE
  ELSE IF val.k = "list" THEN LIST_TYPE
  ELSE Raise("TypeError: Trying to use a python type that is not supported.")

Raises(outs) == {o \in outs : IsRaise(o)}
Returns(outs) == {o \in outs : ~IsRaise(o)}

\* mutant: entries that raise are skipped
BuiltDicts_SkipFailed(outs) ==
  LET good == {x \in DOMAIN outs : Returns(outs[x]) # {}}
  IN {PyDict(f) : f \in {g \in [good -> UNION {Returns(outs[x]) : x \in DOMAIN outs}] :
                           \A x \in good : g[x] \in Returns(outs[x])}}

\* the dicts a loop over the entries of d can build, outs[key] being the
\* possible results for the entry at key
BuiltDicts(outs) ==
  {PyDict(f) : f \in {g \in [DOMAIN outs -> UNION {Returns(outs[x]) : x \in DOMAIN outs}] :
                        \A x \in DOMAIN outs : g[x] \in Returns(outs[x])}}

\* the exceptions a loop over a dict can raise: iteration order is arbitrary,
\* so any failing entry can be the first one met
DictLoopRaises(outs) == UNION {Raises(outs[x]) : x \in DOMAIN outs}

\* the exceptions a loop over a list can raise: those of an element all of
\* whose predecessors can return
ListLoopRaises(outs) ==
  UNION {IF \A j \in 1..(i - 1) : Returns(outs[j]) # {} THEN Raises(outs[i]) ELSE {} :
           i \in DOMAIN outs}

BuiltLists(outs) ==
  {PyList(f) : f \in {g \in [DOMAIN outs -> UNION {Returns(outs[x]) : x \in DOMAIN outs}] :
                        \A x \in DOMAIN outs : g[x] \in Returns(outs[x])}}

RECURSIVE BaseMapAttribute_serialize(_)
RECURSIVE BaseListAttribute_serialize(_)

\* value_type.serialize(value) for the codec instance the dispatcher returned
CodecSerialize(value_type, val) ==
  CASE value_type = STRING_TYPE -> {BaseUnicodeAttribute_serialize(val)}
    [] value_type = NUMBER_TYPE -> {BaseNumberAttribute_serialize(val)}
    [] value_type = BOOLEAN_TYPE -> {BaseAttribute_serialize(val)}
    [] value_type = MAP_TYPE -> BaseMapAttribute_serialize(val)
    [] value_type = LIST_TYPE -> BaseListAttribute_serialize(val)

\* mutant: the wrapper is keyed by the attribute type name, not the wire tag
SerializeElement_LongName(val) ==
  LET value_type == get_pynamo_type(val)
  IN IF IsRaise(value_type) THEN {value_type}
     ELSE LET tag == PyStr(attr_type(value_type))
          IN {IF IsRaise(s) THEN s ELSE PyDict(tag :> s) :
                s \in CodecSerialize(value_type, val)}

\* the loop body shared by both serializers: dispatch, encode, wrap
SerializeElement(val) ==
  LET value_type == get_pynamo_type(val)
  IN IF IsRaise(value_type) THEN {value_type}
     ELSE LET tag == PyStr(ATTR_TYPE_MAP[attr_type(value_type)])
          IN {IF IsRaise(s) THEN s ELSE PyDict(tag :> s) :
                s \in CodecSerialize(value_type, val)}

BaseMapAttribute_serialize(dictionary) ==
  IF dictionary.k # "dict"
  THEN {Raise("TypeError: Only map(dict) types can be serialized using this method.")}
  ELSE LET outs == [key \in DOMAIN dictionary.v |->
                      IF ~IsBaseString(key) THEN {Raise("TypeError: Map keys must be strings.")}
                      ELSE SerializeElement(dictionary.v[key])]
       IN DictLoopRaises(outs) \cup BuiltDicts(outs)

BaseListAttribute_serialize(values) ==
  IF values.k # "list"
  THEN {Raise("TypeError: Only list types can be serialized using this method.")}
  ELSE LET outs == [i \in 1..Len(values.v) |-> SerializeElement(values.v[i])]
       IN ListLoopRaises(outs) \cup BuiltLists(outs)

RECURSIVE BaseMapAttribute_deserialize(_)
RECURSIVE BaseListAttribute_deserialize(_)

\* dynamo_value.keys()[0] is any key of the dict; the branch taken is the one
\* of ATTR_TYPE_MAP[value_type]
get_python_type(dynamo_value) ==
  IF dynamo_value.k # "dict"
  THEN {Raise("TypeError: The dict object returned by dynamodb should be parsed.")}
  ELSE IF DOMAIN dynamo_value.v = {} THEN {Raise("IndexError: list index out of range")}
  ELSE UNION {
    LET payload == dynamo_value.v[value_type]
    IN IF ~IsBaseString(value_type) \/ value_type.v \notin DOMAIN ATTR_TYPE_MAP
         THEN {Raise("KeyError")}
       ELSE IF ATTR_TYPE_MAP[value_type.v] = STRING_T THEN {BaseAttribute_deserialize(payload)}
       ELSE IF ATTR_TYPE_MAP[value_type.v] = NUMBER THEN {BaseNumberAttribute_deserialize(payload)}
       ELSE IF ATTR_TYPE_MAP[value_type.v] = MAP THEN BaseMapAttribute_deserialize(payload)
       ELSE IF ATTR_TYPE_MAP[value_type.v] = LIST THEN BaseListAttribute_deserialize(payload)
       ELSE {Raise("TypeError: The given Dynamodb type is not supported.")}
    : value_type \in DOMAIN dynamo_value.v}

BaseMapAttribute_deserialize(val) ==
  IF val.k # "dict" THEN {Raise("AttributeError: object has no attribute 'iteritems'")}
  ELSE LET outs == [key \in DOMAIN val.v |-> get_python_type(val.v[key])]
       IN DictLoopRaises(outs) \cup BuiltDicts(outs)

\* `for item in value`: a list yields its elements; text and dicts yield
\* characters and keys, none of which is a dict; anything else is not iterable
BaseListAttribute_deserialize(val) ==
  IF val.k = "list"
  THEN LET outs == [i \in 1..Len(val.v) |-> get_python_type(val.v[i])]
       IN ListLoopRaises(outs) \cup BuiltLists(outs)
  ELSE IF IsBaseString(val) \/ val.k = "dict"
  THEN IF Truthy(val)
       THEN {Raise("TypeError: The dict object returned by dynamodb should be parsed.")}
       ELSE {PyList(<<>>)}
  ELSE {Raise("TypeError: object is not iterable")}

----------------------------------------------------------------------------
(* Inputs *)

Scalars ==
  {PyStr(""), PyStr("v1"), PyUnicode("k"), PyInt(0), PyInt(0 - 12), PyBool(TRUE),
   PyFloat(15), PyNone, PyObject}

BadKeyDict == PyDict(PyInt(1) :> PyStr("v1"))

\* native values nested at most d levels deep
RECURSIVE NativeVals(_)
NativeVals(d) ==
  IF d = 0 THEN Scalars
  ELSE Scalars \cup {EmptyDict, PyList(<<>>), BadKeyDict}
         \cup {PyDict(PyStr("k3") :> x) : x \in NativeVals(d - 1)}
         \cup {PyList(<<x>>) : x \in NativeVals(d - 1)}

\* a chain of n alternating lists and maps around one text value
RECURSIVE Nested(_)
Nested(n) ==
  IF n = 0 THEN PyStr("v1")
  ELSE IF n % 2 = 0 THEN PyDict(PyStr("k1") :> Nested(n - 1))
  ELSE PyList(<<Nested(n - 1)>>)

NativeKeys == {PyStr("k1"), PyUnicode("k2"), PyInt(1)}

DictsOver(keys, vals) ==
  {PyDict(f) : f \in UNION {[ks -> vals] : ks \in {x \in SUBSET keys : Cardinality(x) <= MaxLen}}}

ListsOver(vals) == {PyList(q) : q \in UNION {[1..n -> vals] : n \in 0..MaxLen}}

NativeInputs ==
  DictsOver(NativeKeys, NativeVals(MaxDepth - 1)) \cup ListsOver(NativeVals(MaxDepth - 1))
    \cup {Nested(DeepNesting), Nested(DeepNesting + 1)}

W(tag, payload) == PyDict(PyStr(tag) :> payload)

\* stored entries: well formed ones of every tag, and malformed ones
WireScalars ==
  {W("S", PyUnicode("v1")), W("N", PyUnicode("7")), W("N", PyUnicode("-12")),
   W("N", PyUnicode("1.5")), W("N", PyUnicode("true")), W("N", PyUnicode("x7")),
   W("B", PyUnicode("djE=")), W("BOOL", PyBool(TRUE)),
   W("SS", PyList(<<PyUnicode("a")>>)), W("NS", PyList(<<PyUnicode("7")>>)),
   W("BS", PyList(<<PyUnicode("djE=")>>)),
   W("X", PyUnicode("v1")), W("String", PyUnicode("v1")),
   EmptyDict,
   PyDict((PyStr("S") :> PyUnicode("v1")) @@ (PyStr("N") :> PyUnicode("7"))),
   PyDict((PyStr("N") :> PyUnicode("7")) @@ (PyStr("X") :> PyUnicode("v1"))),
   PyUnicode("raw")}

RECURSIVE WireVals(_)
WireVals(d) ==
  IF d = 0 THEN WireScalars
  ELSE WireScalars \cup {W("M", EmptyDict), W("L", PyList(<<>>))}
         \cup {W("M", PyDict(PyStr("k3") :> x)) : x \in WireVals(d - 1)}
         \cup {W("L", PyList(<<x>>)) : x \in WireVals(d - 1)}

WireKeys == {PyUnicode("k1"), PyUnicode("k2")}

WireInputs ==
  DictsOver(WireKeys, WireVals(MaxDepth - 1)) \cup ListsOver(WireVals(MaxDepth - 1))

\* the iteration orders of the subsets of a set of elements
OrdersOf(elems) ==
  {q \in UNION {[1..n -> elems] : n \in 0..Cardinality(elems)} :
     \A i, j \in 1..Len(q) : i # j => q[i] # q[j]}

TextElems == {PyUnicode("a"), PyUnicode("ab"), PyUnicode("B")}
NumElems == {PyInt(0 - 12), PyInt(7), PyInt(10), PyFloat(15)}
BinElems == {PyStr("s0"), PyStr("sp"), PyStr("A")}

SetInputs(elems) == {PyNone} \cup {PySet(q) : q \in OrdersOf(elems)}

TextInputs == {PyNone, PyStr(""), PyUnicode(""), PyStr("v1"), PyUnicode("k"), PyUnicode("ab")}

----------------------------------------------------------------------------
(* The calls *)

Start(c, val) ==
  /\ codec = c
  /\ value = val
  /\ serialized = Unset
  /\ deserialized = Unset
  /\ pc = "call"

Init ==
  \/ \E c \in {"MapAttribute", "ListAttribute"} : \E val \in NativeInputs : Start(c, val)
  \/ \E c \in {"MapAttribute", "ListAttribute"} : \E w \in WireInputs :
       /\ codec = c
       /\ value = Unset
       /\ serialized = w
       /\ deserialized = Unset
       /\ pc = "stored"
  \/ \E val \in SetInputs(TextElems) : Start("UnicodeSetAttribute", val)
  \/ \E val \in SetInputs(NumElems) \cup {PyInt(7)} : Start("NumberSetAttribute", val)
  \/ \E val \in SetInputs(BinElems) : Start("BinarySetAttribute", val)
  \/ \E val \in TextInputs : Start("UnicodeAttribute", val)

Returned(o) ==
  /\ serialized' = o
  /\ pc' = "serialized"
  /\ UNCHANGED <<codec, value, deserialized>>

MapSerialize ==
  /\ pc = "call" /\ codec = "MapAttribute"
  /\ \E o \in BaseMapAttribute_serialize(value) : Returned(o)

ListSerialize ==
  /\ pc = "call" /\ codec = "ListAttribute"
  /\ \E o \in BaseListAttribute_serialize(value) : Returned(o)

UnicodeSetSerialize ==
  /\ pc = "call" /\ codec = "UnicodeSetAttribute"
  /\ Returned(SetMixin_serialize(value))

NumberSetSerialize ==
  /\ pc = "call" /\ codec = "NumberSetAttribute"
  /\ Returned(SetMixin_serialize(value))

BinarySetSerialize ==
  /\ pc = "call" /\ codec = "BinarySetAttribute"
  /\ Returned(BinarySetAttribute_serialize(value))

UnicodeSerialize ==
  /\ pc = "call" /\ codec = "UnicodeAttribute"
  /\ Returned(BaseUnicodeAttribute_serialize(value))

Decoded(o) ==
  /\ deserialized' = o
  /\ pc' = "deserialized"
  /\ UNCHANGED <<codec, value, serialized>>

\* the stored or just serialized structure is read back
MapDeserialize ==
  /\ pc \in {"stored", "serialized"} /\ codec = "MapAttribute"
  /\ ~IsRaise(serialized)
  /\ \E o \in BaseMapAttribute_deserialize(serialized) : Decoded(o)

ListDeserialize ==
  /\ pc \in {"stored", "serialized"} /\ codec = "ListAttribute"
  /\ ~IsRaise(serialized)
  /\ \E o \in BaseListAttribute_deserialize(serialized) : Decoded(o)

Next ==
  \/ MapSerialize
  \/ ListSerialize
  \/ UnicodeSetSerialize
  \/ NumberSetSerialize
  \/ BinarySetSerialize
  \/ UnicodeSerialize
  \/ MapDeserialize
  \/ ListDeserialize

Spec == Init /\ [][Next]_vars

----------------------------------------------------------------------------
(* Vocabulary of the properties *)

Composite == codec \in {"MapAttribute", "ListAttribute"}

\* serialize was called on `value` and has finished
Serialized == value # Unset /\ pc \in {"serialized", "deserialized"}

\* the value was serialized and the result read back
RoundTripped == Composite /\ value # Unset /\ pc = "deserialized"

\* a stored structure of the type the codec reads was read
ReadBack ==
  /\ Composite /\ value = Unset /\ pc = "deserialized"
  /\ \/ codec = "MapAttribute" /\ serialized.k = "dict"
     \/ codec = "ListAttribute" /\ serialized.k = "list"

\* the top-level argument is of the type the codec requires
FitsCodec ==
  \/ codec = "MapAttribute" /\ value.k = "dict"
  \/ codec = "ListAttribute" /\ value.k = "list"

Somewhere(o, P(_)) == \E x \in Objects(o) : P(x)

IsUnsupported(o) == ~(IsBaseString(o) \/ IsNumeric(o) \/ o.k \in {"dict", "list"})
HasBadKey(o) == o.k = "dict" /\ \E x \in DOMAIN o.v : ~IsBaseString(x)
IsEmptyText(o) == IsBaseString(o) /\ Len(o.v) = 0
IsBoolValue(o) == o.k = "bool"

\* built only from text, numbers, booleans, text-keyed maps and lists
Supported(o) == ~Somewhere(o, IsUnsupported) /\ ~Somewhere(o, HasBadKey)

\* Python's == on the modelled objects
RECURSIVE PyEq(_, _)
PyEq(a, b) ==
  IF IsBaseString(a) /\ IsBaseString(b) THEN a.v = b.v
  ELSE IF IsNumeric(a) /\ IsNumeric(b) THEN NumVal(a) = NumVal(b)
  ELSE IF a.k = "dict" /\ b.k = "dict"
    THEN /\ Cardinality(DOMAIN a.v) = Cardinality(DOMAIN b.v)
         /\ \A x \in DOMAIN a.v : \E y \in DOMAIN b.v : PyEq(x, y) /\ PyEq(a.v[x], b.v[y])
  ELSE IF a.k = "list" /\ b.k = "list"
    THEN Len(a.v) = Len(b.v) /\ \A i \in 1..Len(a.v) : PyEq(a.v[i], b.v[i])
  ELSE a = b

----------------------------------------------------------------------------
(* C1: round trip *)

\* C1 as stated: for every native value V built from text, numbers, booleans
\* and nested text-keyed maps and lists, empty text included, deserializing
\* the serialization of V yields a value equal to V.
C1_RoundTripAnyText ==
  (RoundTripped /\ FitsCodec /\ Supported(value)) => PyEq(deserialized, value)

\* C1 amended: for every such V that contains no empty text, serialize
\* succeeds and deserializing its result yields a value equal to V.
C1_RoundTrip ==
  (Composite /\ Serialized /\ FitsCodec /\ Supported(value)
     /\ ~Somewhere(value, IsEmptyText))
  => /\ ~IsRaise(serialized)
     /\ pc = "deserialized" => PyEq(deserialized, value)

C1_Witness ==
  /\ RoundTripped /\ FitsCodec /\ Supported(value)
  /\ ~Somewhere(value, IsEmptyText)
  /\ Somewhere(value, IsBoolValue)
  /\ \E e \in Elements(value) : e.k \in {"dict", "list"} /\ Elements(e) # {}
  /\ PyEq(deserialized, value)

----------------------------------------------------------------------------
(* C2: structure preservation *)

ExpectedTag(o) ==
  IF IsBaseString(o) THEN "S"
  ELSE IF IsNumeric(o) THEN "N"
  ELSE IF o.k = "dict" THEN "M"
  ELSE "L"

\* p is the encoding of the native value o: the scalar codec's output for a
\* scalar, and for a map / list a structure of one wrapper per entry, under
\* the same keys / at the same positions
RECURSIVE EncodingOf(_, _)
WrapperOf(o, w) ==
  /\ w.k = "dict"
  /\ DOMAIN w.v = {PyStr(ExpectedTag(o))}
  /\ EncodingOf(o, w.v[PyStr(ExpectedTag(o))])

EncodingOf(o, p) ==
  IF IsBaseString(o) THEN p = BaseUnicodeAttribute_serialize(o)
  ELSE IF IsNumeric(o) THEN p = BaseNumberAttribute_serialize(o)
  ELSE IF o.k = "dict"
    THEN /\ p.k = "dict"
         /\ DOMAIN p.v = DOMAIN o.v
         /\ \A x \in DOMAIN o.v : WrapperOf(o.v[x], p.v[x])
  ELSE /\ p.k = "list"
       /\ Len(p.v) = Len(o.v)
       /\ \A i \in 1..Len(o.v) : WrapperOf(o.v[i], p.v[i])

\* C2: the structure Map / List serialize returns has exactly the keys of the
\* input map, or the length and order of the input list, and every element is
\* a one-key wrapper whose key is the wire tag of the codec dispatched for the
\* input element and whose payload is that codec's encoding, at every level.
C2_StructurePreserved ==
  (Composite /\ Serialized /\ ~IsRaise(serialized)) => EncodingOf(value, serialized)

C2_Witness ==
  /\ Composite /\ Serialized /\ ~IsRaise(serialized)
  /\ value.k = "list" /\ Len(value.v) = MaxLen
  /\ value.v[1].k = "dict" /\ DOMAIN value.v[1].v # {}
  /\ IsNumeric(value.v[MaxLen])
  /\ EncodingOf(value, serialized)

----------------------------------------------------------------------------
(* C3: nothing empty is emitted *)

IsEmptyPayload(p) ==
  \/ p.k = "NoneType"
  \/ IsBaseString(p) /\ Len(p.v) = 0
  \/ p.k = "list" /\ Len(p.v) = 0

\* a wrapper nested in the serialized structure w carries an empty payload
HasEmptyPayload(w) ==
  \E x \in Objects(w) : x.k = "dict" /\ \E t \in DOMAIN x.v : IsEmptyPayload(x.v[t])

\* C3: at every nesting level the output of Map / List serialize contains no
\* wrapper whose payload is null, an empty string or an empty list; an empty
\* text nested in a map or list produces no entry.
C3_NoEmptyPayload ==
  (Composite /\ Serialized /\ ~IsRaise(serialized)) => ~HasEmptyPayload(serialized)

----------------------------------------------------------------------------
(* C4: dispatcher precedence *)

UnsupportedTypeError == Raise("TypeError: Trying to use a python type that is not supported.")

\* the tags of the wrappers of the serialized structure w of the native o
RECURSIVE TagsOf(_, _)
TagsOf(o, p) ==
  IF o.k = "dict"
    THEN UNION {{<<o.v[x], t.v>> : t \in DOMAIN p.v[x].v}
                  \cup UNION {TagsOf(o.v[x], p.v[x].v[t]) : t \in DOMAIN p.v[x].v} :
                x \in DOMAIN o.v}
  ELSE IF o.k = "list"
    THEN UNION {{<<o.v[i], t.v>> : t \in DOMAIN p.v[i].v}
                  \cup UNION {TagsOf(o.v[i], p.v[i].v[t]) : t \in DOMAIN p.v[i].v} :
                i \in 1..Len(o.v)}
  ELSE {}

\* C4: text is classified to the Text codec (tag S), integers, floats and
\* booleans to the Number codec (tag N, a boolean never under BOOL), mappings
\* to the Map codec (tag M), sequences to the List codec (tag L); a value of
\* any other kind makes serialize fail with the unsupported-type error.
C4_Dispatch ==
  (Composite /\ Serialized /\ FitsCodec /\ ~Somewhere(value, HasBadKey))
  => IF Somewhere(value, IsUnsupported)
       THEN serialized = UnsupportedTypeError
     ELSE /\ ~IsRaise(serialized)
          /\ \A e \in TagsOf(value, serialized) :
               /\ IsBaseString(e[1]) => e[2] = "S"
               /\ (e[1].k \in {"int", "float", "bool"}) => e[2] = "N"
               /\ e[1].k = "dict" => e[2] = "M"
               /\ e[1].k = "list" => e[2] = "L"
               /\ e[2] # "BOOL"

C4_Witness ==
  /\ Composite /\ Serialized /\ FitsCodec /\ ~IsRaise(serialized)
  /\ \E e \in TagsOf(value, serialized) : e[1].k = "bool" /\ e[2] = "N"
  /\ \E e \in TagsOf(value, serialized) : e[1].k = "float" /\ e[2] = "N"
  /\ \E e \in TagsOf(value, serialized) : e[1].k = "list" /\ e[2] = "L"

C4_WitnessUnsupported ==
  /\ Composite /\ Serialized /\ FitsCodec
  /\ Somewhere(value, IsUnsupported)
  /\ serialized = UnsupportedTypeError

----------------------------------------------------------------------------
(* C5, C6: reading stored entries *)

\* the entries get_python_type is applied to when the wire structure p (the
\* payload of an M or L tag) is read, following one-key M / L wrappers down
RECURSIVE EntriesOf(_)
EntriesOf(p) ==
  UNION {{e} \cup (IF e.k = "dict" /\ Cardinality(DOMAIN e.v) = 1
                     THEN UNION {IF t.v \in {"M", "L"} /\ e.v[t].k \in {"dict", "list"}
                                   THEN EntriesOf(e.v[t]) ELSE {} : t \in DOMAIN e.v}
                   ELSE {}) :
           e \in Elements(p)}

NotOneTag(e) == e.k = "dict" /\ Cardinality(DOMAIN e.v) # 1

\* C5: if any entry at any nesting level of a wire map or wire list has zero
\* keys or two or more keys, deserialize fails and returns no value.
C5_Malformed ==
  (ReadBack /\ \E e \in EntriesOf(serialized) : NotOneTag(e)) => IsRaise(deserialized)

TagOf(e) == (CHOOSE t \in DOMAIN e.v : TRUE).v

\* a one-key entry whose payload has the shape its tag announces
WellShaped(e) ==
  /\ e.k = "dict" /\ Cardinality(DOMAIN e.v) = 1
  /\ LET p == e.v[CHOOSE t \in DOMAIN e.v : TRUE]
     IN CASE TagOf(e) = "N" -> IsBaseString(p) /\ ~IsRaise(json_loads(p.v))
          [] TagOf(e) = "M" -> p.k = "dict"
          [] TagOf(e) \in {"L", "SS", "NS", "BS"} -> p.k = "list"
          [] TagOf(e) = "BOOL" -> p.k = "bool"
          [] OTHER -> IsBaseString(p)

\* C6: every entry tagged with a tag of the enumeration S, N, B, BOOL, SS, NS,
\* BS, M, L is decoded, and deserialize fails exactly when an entry's tag is
\* not in the enumeration.
C6_TagLookup ==
  (ReadBack /\ \A e \in EntriesOf(serialized) : WellShaped(e))
  => (IsRaise(deserialized) <=> \E e \in EntriesOf(serialized) : TagOf(e) \notin ShortTags)

----------------------------------------------------------------------------
(* C7: all or nothing *)

InvalidKeyError == Raise("TypeError: Map keys must be strings.")

\* the exceptions the offending elements of the native value o raise
SerializeErrors(o) ==
  (IF Somewhere(o, IsUnsupported) THEN {UnsupportedTypeError} ELSE {})
    \cup (IF Somewhere(o, HasBadKey) THEN {InvalidKeyError} ELSE {})

\* the exceptions decoding the entry e alone can raise: it is not a dict, has
\* no key, or the key looked at is a tag without decoder or tags a number that
\* does not parse; a one-key entry with such an exception cannot be decoded
TagErrors(tag, payload) ==
  IF tag \notin DOMAIN ATTR_TYPE_MAP THEN {Raise("KeyError")}
  ELSE IF tag \notin {"S", "N", "M", "L"}
    THEN {Raise("TypeError: The given Dynamodb type is not supported.")}
  ELSE IF tag = "N" /\ IsBaseString(payload) /\ IsRaise(json_loads(payload.v))
    THEN {json_loads(payload.v)}
  ELSE {}

EntryErrors(e) ==
  IF e.k # "dict" THEN {Raise("TypeError: The dict object returned by dynamodb should be parsed.")}
  ELSE IF DOMAIN e.v = {} THEN {Raise("IndexError: list index out of range")}
  ELSE UNION {TagErrors(t.v, e.v[t]) : t \in DOMAIN e.v}

Undecodable(e) == ~NotOneTag(e) /\ EntryErrors(e) # {}

\* every entry nested in the wire structure p, under any key of any entry
RECURSIVE AllEntriesOf(_)
AllEntriesOf(p) ==
  UNION {{e} \cup (IF e.k = "dict"
                     THEN UNION {IF t.v \in {"M", "L"} /\ e.v[t].k \in {"dict", "list"}
                                   THEN AllEntriesOf(e.v[t]) ELSE {} : t \in DOMAIN e.v}
                   ELSE {}) :
           e \in Elements(p)}

DeserializeErrors(w) == UNION {EntryErrors(e) : e \in AllEntriesOf(w)}

\* C7: if any element at any depth of the native input is of an unsupported
\* kind or any nested map has a non-text key, serialize returns no structure
\* and fails with the error of an offending element; if a nested wire entry
\* cannot be decoded, deserialize returns no structure and fails with the
\* error of such an entry.
C7_AllOrNothing ==
  /\ (Composite /\ Serialized /\ FitsCodec /\ SerializeErrors(value) # {})
       => serialized \in SerializeErrors(value)
  /\ (ReadBack /\ \E e \in EntriesOf(serialized) : Undecodable(e))
       => deserialized \in DeserializeErrors(serialized)
  /\ (Composite /\ Serialized) => (IsRaise(serialized) \/ EncodingOf(value, serialized))

C7_Witness ==
  /\ Composite /\ Serialized /\ FitsCodec
  /\ value.k = "list" /\ Len(value.v) = MaxLen
  /\ value.v[1].k = "int"
  /\ value.v[MaxLen].k = "list" /\ Somewhere(value.v[MaxLen], IsUnsupported)
  /\ serialized = UnsupportedTypeError

C7_WitnessRead ==
  /\ ReadBack /\ serialized.k = "dict"
  /\ \E x \in DOMAIN serialized.v : EntryErrors(serialized.v[x]) = {}
  /\ \E e \in EntriesOf(serialized) : e \notin Elements(serialized) /\ Undecodable(e)
  /\ deserialized \in DeserializeErrors(serialized)

----------------------------------------------------------------------------
(* C8, C9: set and text codecs *)

SetCodec == codec \in {"UnicodeSetAttribute", "NumberSetAttribute", "BinarySetAttribute"}

\* the codec's serialize applied to another argument
SerializeWith(c, val) ==
  IF c = "BinarySetAttribute" THEN BinarySetAttribute_serialize(val)
  ELSE SetMixin_serialize(val)

\* the wire form of one member
MemberEncoding(c, x) ==
  IF c = "BinarySetAttribute" THEN PyUnicode(b64encode(x.v)) ELSE PyStr(json_dumps(x))

\* the total order of the native type: numeric for numbers, lexicographic
\* for text and binary
NativeLess(a, b) ==
  IF IsNumeric(a) THEN NumVal(a) < NumVal(b) ELSE StrLess(a.v, b.v)

Members(s) == {s.v[i] : i \in 1..Len(s.v)}

NonEmptySet(o) == o.k = "set" /\ Len(o.v) > 0

\* C8: for a non-empty set the output holds one element per member, the
\* encoding of the member at the position of its rank in the native order,
\* and every other iteration order of the same set gives the same sequence.
C8_SetCanonical ==
  (SetCodec /\ Serialized /\ NonEmptySet(value))
  => /\ serialized.k = "list"
     /\ Len(serialized.v) = Cardinality(Members(value))
     /\ \A x \in Members(value) :
          serialized.v[1 + Cardinality({y \in Members(value) : NativeLess(y, x)})]
            = MemberEncoding(codec, x)
     /\ \A q \in OrdersOf(Members(value)) :
          Len(q) = Len(value.v) => SerializeWith(codec, PySet(q)) = serialized

C8_Witness ==
  /\ SetCodec /\ Serialized /\ value.k = "set" /\ Len(value.v) = 3
  /\ NativeLess(value.v[3], value.v[1])
  /\ serialized.k = "list"
  /\ serialized.v[1] = MemberEncoding(codec, value.v[3])

\* C9: Set serialize of a null or empty set and Text serialize of a null or
\* empty text return the absent marker; for a non-empty set or text they
\* return a non-empty list or a non-empty text.
C9_Absence ==
  /\ (SetCodec /\ Serialized /\ (value = PyNone \/ value.k = "set"))
       => IF NonEmptySet(value)
            THEN serialized.k = "list" /\ Len(serialized.v) > 0
          ELSE serialized = PyNone
  /\ (codec = "UnicodeAttribute" /\ Serialized /\ (value = PyNone \/ IsBaseString(value)))
       => IF IsBaseString(value) /\ Len(value.v) > 0
            THEN IsBaseString(serialized) /\ Len(serialized.v) > 0
          ELSE serialized = PyNone

C9_Witness ==
  /\ Serialized
  /\ \/ SetCodec /\ value = PySet(<<>>)
     \/ codec = "UnicodeAttribute" /\ value = PyStr("")
  /\ serialized = PyNone

----------------------------------------------------------------------------
(* C10: nesting depth *)

=============================================================================
